---------------------------- MODULE Spec2Model ----------------------------
(***************************************************************************)
(* Perseus point-based POMDP planner (nova, CPU version).                  *)
(*                                                                         *)
(* Number encoding.  The C code computes in float.  The model keeps every  *)
(* quantity an integer so that all arithmetic is exact:                    *)
(*   - alpha-vector entries, rewards R and initialGamma are integers;      *)
(*   - T, O and gamma take the values 0 and 1 (deterministic transitions   *)
(*     and observations, discount 0 or 1);                                 *)
(*   - belief weights B are stored in halves (B = 2 means probability 1,   *)
(*     B = 1 means probability 1/2);                                       *)
(*   - every value the code compares (b.alpha, Vnb, value, bestValue) is   *)
(*     held in quarters, i.e. 2 * SUM B * alpha, so that every non-zero     *)
(*     value has magnitude >= 2 and FLT_MIN, the smallest positive float,  *)
(*     is the integer 1: strictly above 0 and strictly below every         *)
(*     positive value the arithmetic can produce.                          *)
(* Arrays are 0-based functions with the flat layout of the C code.        *)
(***************************************************************************)
EXTENDS Integers, Naturals, Sequences, FiniteSets, TLC

\* <cfloat> FLT_MIN: smallest positive normal float (see the encoding above).
FLT_MIN == 1

\* <cstdlib> RAND_MAX: rand() returns a value in [0, RAND_MAX].
RAND_MAX == 32767

\* error_codes.h
NOVA_SUCCESS == "NOVA_SUCCESS"
NOVA_CONVERGED == "NOVA_CONVERGED"
NOVA_ERROR_INVALID_DATA == "NOVA_ERROR_INVALID_DATA"
NOVA_ERROR_OUT_OF_MEMORY == "NOVA_ERROR_OUT_OF_MEMORY"

\* A null pointer: an array with no element.
nullptr == << >>

\* The 0-based array holding the elements of a tuple.
Arr(t) == [i \in 0..(Len(t) - 1) |-> t[i + 1]]

---------------------------------------------------------------------------
(* Kernels                                                                 *)

\* The loop of pomdp_perseus_compute_b_dot_alpha_cpu from index j on; alpha
\* is the pointer A + off.
RECURSIVE b_dot_alpha_loop(_, _, _, _, _, _, _)
b_dot_alpha_loop(rz, Z, B, bIndex, A, off, j) ==
    IF j >= rz THEN 0
    ELSE LET s == Z[bIndex * rz + j] IN
         IF s < 0 THEN 0
         ELSE B[bIndex * rz + j] * A[off + s]
              + b_dot_alpha_loop(rz, Z, B, bIndex, A, off, j + 1)

\* *bDotAlpha on return (in quarters).
pomdp_perseus_compute_b_dot_alpha_cpu(rz, Z, B, bIndex, A, off) ==
    2 * b_dot_alpha_loop(rz, Z, B, bIndex, A, off, 0)

\* Lines 62-65: vector i replaces the best one if *Vnb < bDotAlpha.
compute_Vb_better(i, acc, bDotAlpha) ==
    IF acc.Vnb < bDotAlpha
    THEN [Vnb |-> bDotAlpha, alphaPrimeIndex |-> i]
    ELSE acc

\* The loop of pomdp_perseus_compute_Vb_cpu from index i on; acc holds *Vnb
\* and *alphaPrimeIndex.
RECURSIVE compute_Vb_loop(_, _, _, _, _, _, _, _, _)
compute_Vb_loop(n, rz, Z, B, bIndex, Gamma, rGamma, i, acc) ==
    IF i >= rGamma THEN acc
    ELSE compute_Vb_loop(n, rz, Z, B, bIndex, Gamma, rGamma, i + 1,
             compute_Vb_better(i, acc,
                 pomdp_perseus_compute_b_dot_alpha_cpu(rz, Z, B, bIndex, Gamma, i * n)))

\* *Vnb and *alphaPrimeIndex on return; alphaPrimeIndex0 is the caller's value
\* of *alphaPrimeIndex, which the function leaves alone when nothing beats
\* FLT_MIN.
pomdp_perseus_compute_Vb_cpu(n, rz, Z, B, bIndex, Gamma, rGamma, alphaPrimeIndex0) ==
    compute_Vb_loop(n, rz, Z, B, bIndex, Gamma, rGamma, 0,
                    [Vnb |-> FLT_MIN, alphaPrimeIndex |-> alphaPrimeIndex0])

\* SUM_l O[a,sp,o] * T[s,a,l] * row[sp] over the valid successors of (s, a),
\* times gamma: the value Vtk of lines 97-106 and 122-131.  row[sp] stands for
\* Gamma[j * n + sp].
RECURSIVE Vtk_loop(_, _, _, _, _, _)
Vtk_loop(p, s, a, o, row, l) ==
    IF l >= p.ns THEN 0
    ELSE LET sp == p.S[s * p.m * p.ns + a * p.ns + l] IN
         IF sp < 0 THEN 0
         ELSE p.O[a * p.n * p.z + sp * p.z + o] * p.T[s * p.m * p.ns + a * p.ns + l] * row[sp]
              + Vtk_loop(p, s, a, o, row, l + 1)

Vtk(p, s, a, o, row) == p.gamma * Vtk_loop(p, s, a, o, row, 0)

\* Row j of a pool, as the function sp |-> Gamma[j * n + sp].
GammaRow(p, Gamma, j) == [sp \in 0..(p.n - 1) |-> Gamma[j * p.n + sp]]

\* Lines 87-109: the value of source vector j at belief bIndex after action a
\* and observation o (in quarters), from support index k on.
RECURSIVE best_alpha_value_loop(_, _, _, _, _, _)
best_alpha_value_loop(p, bIndex, a, o, row, k) ==
    IF k >= p.rz THEN 0
    ELSE LET s == p.Z[bIndex * p.rz + k] IN
         IF s < 0 THEN 0
         ELSE Vtk(p, s, a, o, row) * p.B[bIndex * p.rz + k]
              + best_alpha_value_loop(p, bIndex, a, o, row, k + 1)

best_alpha_value(p, bIndex, a, o, row) ==
    2 * best_alpha_value_loop(p, bIndex, a, o, row, 0)

\* Lines 111-115: vector j replaces the best one if its value is strictly
\* larger.
best_alpha_better(j, st, value) ==
    IF value > st.bestValue
    THEN [bestj |-> j, assigned |-> TRUE, bestValue |-> value]
    ELSE st

\* Lines 83-116: the maximisation over j of one observation.  st holds bestj,
\* whether bestj has ever been assigned, and bestValue.
RECURSIVE best_alpha_j_loop(_, _, _, _, _, _, _, _)
best_alpha_j_loop(p, bIndex, Gamma, rGamma, a, o, j, st) ==
    IF j >= rGamma THEN st
    ELSE best_alpha_j_loop(p, bIndex, Gamma, rGamma, a, o, j + 1,
             best_alpha_better(j, st,
                 best_alpha_value(p, bIndex, a, o, GammaRow(p, Gamma, j))))

\* Lines 118-134: alpha after the vector chosen for observation o (st, the
\* outcome of the maximisation) is accumulated into it.  junk is what
\* Gamma[bestj * n + sp] yields when bestj is read unassigned.
best_alpha_accumulate(p, Gamma, a, junk, o, acc, st) ==
    [alpha |-> [s \in 0..(p.n - 1) |->
                   acc.alpha[s] + Vtk(p, s, a, o,
                                      IF st.assigned THEN GammaRow(p, Gamma, st.bestj)
                                      ELSE junk)],
     bestj |-> st.bestj,
     assigned |-> st.assigned,
     unassignedRead |-> acc.unassignedRead \/ ~st.assigned]

\* Lines 79-135: the loop over observations from o on.  acc holds alpha, bestj
\* (a local declared once, outside the loop, without an initial value),
\* whether it has been assigned, and whether it was read unassigned.
RECURSIVE best_alpha_o_loop(_, _, _, _, _, _, _, _)
best_alpha_o_loop(p, bIndex, Gamma, rGamma, a, junk, o, acc) ==
    IF o >= p.z THEN acc
    ELSE best_alpha_o_loop(p, bIndex, Gamma, rGamma, a, junk, o + 1,
             best_alpha_accumulate(p, Gamma, a, junk, o, acc,
                 best_alpha_j_loop(p, bIndex, Gamma, rGamma, a, o, 0,
                     [bestj |-> acc.bestj, assigned |-> acc.assigned,
                      bestValue |-> FLT_MIN])))

pomdp_perseus_update_compute_best_alpha_cpu(p, bIndex, Gamma, rGamma, a, alpha, junk) ==
    best_alpha_o_loop(p, bIndex, Gamma, rGamma, a, junk, 0,
        [alpha |-> alpha, bestj |-> 0, assigned |-> FALSE, unassignedRead |-> FALSE])

\* Lines 167-175: the candidate of action a (best, the outcome of the
\* best-alpha kernel, of value `value` at the belief) replaces the stored one
\* if its value is strictly larger.
update_step_store(a, acc, best, value) ==
    IF value > acc.bestValue
    THEN [alphaPrime |-> best.alpha, aPrime |-> a, bestValue |-> value,
          stored |-> TRUE, unassignedRead |-> acc.unassignedRead \/ best.unassignedRead]
    ELSE [acc EXCEPT !.unassignedRead = acc.unassignedRead \/ best.unassignedRead]

update_step_value(p, bIndex, a, acc, best) ==
    update_step_store(a, acc, best,
        pomdp_perseus_compute_b_dot_alpha_cpu(p.rz, p.Z, p.B, bIndex, best.alpha, 0))

\* Lines 152-176: the loop over actions from a on.  acc holds *alphaPrime,
\* *aPrime, bestValue, whether alphaPrime was stored, and whether any call of
\* the best-alpha kernel read bestj unassigned.  junk[a] is the junk row of the
\* call for action a.
RECURSIVE update_step_loop(_, _, _, _, _, _, _)
update_step_loop(p, Gamma, rGamma, bIndex, junk, a, acc) ==
    IF a >= p.m THEN acc
    ELSE update_step_loop(p, Gamma, rGamma, bIndex, junk, a + 1,
             update_step_value(p, bIndex, a, acc,
                 pomdp_perseus_update_compute_best_alpha_cpu(
                     p, bIndex, Gamma, rGamma, a,
                     [s \in 0..(p.n - 1) |-> p.R[s * p.m + a]], junk[a])))

\* alphaPrime0 is the content of the caller's buffer (new float[n], never
\* initialised) and aPrime0 the caller's *aPrime: both are left alone when no
\* action's value beats FLT_MIN.
pomdp_perseus_update_step_cpu(p, Gamma, rGamma, bIndex, junk, alphaPrime0, aPrime0) ==
    update_step_loop(p, Gamma, rGamma, bIndex, junk, 0,
        [alphaPrime |-> alphaPrime0, aPrime |-> aPrime0, bestValue |-> FLT_MIN,
         stored |-> FALSE, unassignedRead |-> FALSE])

---------------------------------------------------------------------------
(* Inputs                                                                  *)

\* Largest horizon of the models explored.
MaxHorizon == 2

\* Sparse successors: action 0 stays, action 1 moves to the other state.  Each
\* (s, a) row holds one successor and the negative sentinel.
ModelS == Arr(<<0, -1, 1, -1, 1, -1, 0, -1>>)
ModelT == Arr(<<1, 0, 1, 0, 1, 0, 1, 0>>)

\* O[a * n * z + sp * z + o] for z = 1 and for z = 2 (action 0 reveals the
\* state, action 1 always yields observation 0).
ModelO(z) == IF z = 1 THEN Arr(<<1, 1, 1, 1>>)
             ELSE Arr(<<1, 0, 0, 1, 1, 0, 1, 0>>)

\* Reward tables R[s * m + a].
ModelRs == { Arr(<<1, 0, 0, 3>>), Arr(<<1, -5, -3, -5>>),
             Arr(<<-1, -2, -1, -2>>), Arr(<<0, 0, 0, 0>>) }

\* Belief sets (Z, B in halves): two point beliefs; or a point belief, the
\* uniform belief and the other point belief.
ModelBeliefs ==
    { [r |-> 2, Z |-> Arr(<<0, -1, 1, -1>>), B |-> Arr(<<2, 0, 2, 0>>)],
      [r |-> 3, Z |-> Arr(<<0, -1, 0, 1, 1, -1>>), B |-> Arr(<<2, 0, 1, 1, 2, 0>>)] }

\* The reward tables explored with a belief set: every table with two
\* beliefs, the tables that have a positive entry with three.
ModelRsFor(bs) == { R \in ModelRs : bs.r = 2 \/ \E k \in DOMAIN R : R[k] > 0 }

\* The valid POMDPs explored: n = 2 states, m = 2 actions, ns = 2, rz = 2; one
\* observation with two beliefs, two observations with three.
Models ==
    UNION { { [n |-> 2, ns |-> 2, m |-> 2, z |-> bs.r - 1, r |-> bs.r, rz |-> 2,
               gamma |-> g, horizon |-> h,
               S |-> ModelS, T |-> ModelT, O |-> ModelO(bs.r - 1), R |-> R,
               Z |-> bs.Z, B |-> bs.B] :
              g \in {0, 1}, h \in 1..MaxHorizon, R \in ModelRsFor(bs) } :
            bs \in ModelBeliefs }

\* The initial alpha-vector arrays explored for a model: r * n equal entries.
InitialGammas(p) == { [k \in 0..(p.r * p.n - 1) |-> c] : c \in {0, 2} }

\* A model and arguments that violate exactly one of the requirements of
\* pomdp_perseus_execute_cpu.
BaseModel ==
    [n |-> 2, ns |-> 2, m |-> 2, z |-> 1, r |-> 2, rz |-> 2, gamma |-> 0, horizon |-> 1,
     S |-> ModelS, T |-> ModelT, O |-> ModelO(1), R |-> Arr(<<1, 0, 0, 3>>),
     Z |-> Arr(<<0, -1, 1, -1>>), B |-> Arr(<<2, 0, 2, 0>>)]
BaseGamma == [k \in 0..(BaseModel.r * BaseModel.n - 1) |-> 0]
StalePolicy == [n |-> 2, m |-> 2, r |-> 0, Gamma |-> Arr(<< >>), pi |-> Arr(<< >>)]

InvalidCalls ==
    { [pomdp |-> [BaseModel EXCEPT ![f] = 0], initialGamma |-> BaseGamma, policy |-> nullptr] :
        f \in {"n", "ns", "m", "z", "r", "rz", "horizon"} }
    \cup
    { [pomdp |-> [BaseModel EXCEPT ![f] = nullptr], initialGamma |-> BaseGamma, policy |-> nullptr] :
        f \in {"S", "T", "O", "R", "Z", "B"} }
    \cup
    { [pomdp |-> [BaseModel EXCEPT !.gamma = g], initialGamma |-> BaseGamma, policy |-> nullptr] :
        g \in {-1, 2} }
    \cup
    { [pomdp |-> BaseModel, initialGamma |-> nullptr, policy |-> nullptr],
      [pomdp |-> BaseModel, initialGamma |-> BaseGamma, policy |-> StalePolicy] }

ValidCalls ==
    UNION { { [pomdp |-> p, initialGamma |-> ig, policy |-> nullptr] :
                ig \in InitialGammas(p) } : p \in Models }

\* What an uninitialised float can hold, and the rows of such floats.
JunkValues == {-1, 1}
JunkRows(p) == [0..(p.n - 1) -> JunkValues]
\* The rows explored for reads of a pool through an unassigned bestj.
JunkPoolRows(p) == { [s \in 0..(p.n - 1) |-> v] : v \in JunkValues }
ZeroRow(p) == [s \in 0..(p.n - 1) |-> 0]

\* Values of rand() explored: they reach every index of a BTilde of up to 3
\* entries, and include both ends of [0, RAND_MAX].
RandDraws == {0, RAND_MAX \div 3 + 1, 2 * (RAND_MAX \div 3) + 2, RAND_MAX}

---------------------------------------------------------------------------
(* One call of pomdp_perseus_update_cpu, as a function of the scratch state *)

\* Line 348: (unsigned int)((float)rand() / (float)RAND_MAX * (float)rTilde).
SampleBTildeIndex(rand, rTilde) == (rand * rTilde) \div RAND_MAX

\* memcpy of one vector of n floats to &pool[slot * n].  A slot at or past the
\* end of the pool lies outside the array: the array itself keeps its content.
WriteRow(p, pool, slot, row) ==
    [k \in DOMAIN pool |->
        IF slot * p.n <= k /\ k < slot * p.n + p.n THEN row[k - slot * p.n] ELSE pool[k]]

WriteEntry(arr, slot, v) == [k \in DOMAIN arr |-> IF k = slot THEN v ELSE arr[k]]

\* Variant of rebuild_BTilde_add that stores the first belief index instead
\* of i.
rebuild_BTilde_add_first(acc, i) ==
    [BTilde |-> WriteEntry(acc.BTilde, acc.rTilde, 0), rTilde |-> acc.rTilde + 1]

\* Lines 407-408: BTilde[rTilde] = i; rTilde++.
rebuild_BTilde_add(acc, i) ==
    [BTilde |-> WriteEntry(acc.BTilde, acc.rTilde, i), rTilde |-> acc.rTilde + 1]

\* Variant of rebuild_BTilde_degraded that also keeps the beliefs whose value
\* did not change.
rebuild_BTilde_degraded_or_equal(Vnp1b, Vnb) == Vnp1b <= Vnb

\* Line 406: the value at the belief dropped from V_n to V_{n+1}.
rebuild_BTilde_degraded(Vnp1b, Vnb) == Vnp1b < Vnb

\* Lines 395-410: the loop rebuilding BTilde from belief i on; acc holds the
\* BTilde array and rTilde.
RECURSIVE rebuild_BTilde_loop(_, _, _, _, _, _, _)
rebuild_BTilde_loop(p, Gamma, rGamma, GammaPrime, rGammaPrime, i, acc) ==
    IF i >= p.r THEN acc
    ELSE rebuild_BTilde_loop(p, Gamma, rGamma, GammaPrime, rGammaPrime, i + 1,
             IF rebuild_BTilde_degraded(
                    pomdp_perseus_compute_Vb_cpu(p.n, p.rz, p.Z, p.B, i,
                                                 GammaPrime, rGammaPrime, 0).Vnb,
                    pomdp_perseus_compute_Vb_cpu(p.n, p.rz, p.Z, p.B, i, Gamma, rGamma, 0).Vnb)
             THEN rebuild_BTilde_add(acc, i)
             ELSE acc)

\* Lines 360-381: the choice between the backed-up vector (step) and the best
\* vector of the source pool (Vb) at belief bIndex.
UpdateSelect(p, Gamma, pi, step, bDotAlpha, Vb) ==
    [row |-> IF bDotAlpha >= Vb.Vnb THEN step.alphaPrime
             ELSE GammaRow(p, Gamma, Vb.alphaPrimeIndex),
     action |-> IF bDotAlpha >= Vb.Vnb THEN step.aPrime ELSE pi[Vb.alphaPrimeIndex],
     backedUp |-> bDotAlpha >= Vb.Vnb,
     stored |-> step.stored, unassignedRead |-> step.unassignedRead,
     alpha |-> step.alphaPrime, alphaAction |-> step.aPrime,
     bDotAlpha |-> bDotAlpha, Vnb |-> Vb.Vnb, alphaPrimeIndex |-> Vb.alphaPrimeIndex]

UpdateCompare(p, Gamma, rGamma, pi, bIndex, step) ==
    UpdateSelect(p, Gamma, pi, step,
        pomdp_perseus_compute_b_dot_alpha_cpu(p.rz, p.Z, p.B, bIndex, step.alphaPrime, 0),
        pomdp_perseus_compute_Vb_cpu(p.n, p.rz, p.Z, p.B, bIndex, Gamma, rGamma, 0))

\* Lines 352-382: the vector and action the update appends for belief bIndex.
\* Gamma, rGamma, pi are the source pool (V_n).  junk[a] is what the best-alpha
\* kernel reads through an unassigned bestj for action a; garbage is the
\* content of the fresh buffer alpha.
UpdateChoice(p, Gamma, rGamma, pi, bIndex, junk, garbage) ==
    UpdateCompare(p, Gamma, rGamma, pi, bIndex,
        pomdp_perseus_update_step_cpu(p, Gamma, rGamma, bIndex, junk, garbage, 0))

\* Line 386: the overflow test, made after the vector was written and the
\* count incremented.
OutOfMemory(p, rGammaPrime) == rGammaPrime > p.r

\* The source pool V_n and the destination pool V_{n+1} of lines 331-345.
SourcePool(sc) ==
    IF sc.currentHorizon % 2 = 0
    THEN [Gamma |-> sc.Gamma, rGamma |-> sc.rGamma, pi |-> sc.pi]
    ELSE [Gamma |-> sc.GammaPrime, rGamma |-> sc.rGammaPrime, pi |-> sc.piPrime]

DestinationPool(sc) ==
    IF sc.currentHorizon % 2 = 0
    THEN [Gamma |-> sc.GammaPrime, rGamma |-> sc.rGammaPrime, pi |-> sc.piPrime]
    ELSE [Gamma |-> sc.Gamma, rGamma |-> sc.rGamma, pi |-> sc.pi]

\* Variant of ConvergedSourceCount that keeps the count of the source pool.
ConvergedSourceCount_kept(converged, rGamma) == rGamma

\* Lines 420-426: on convergence the count of the source pool is reset to 0,
\* so that the pool is empty when it becomes the destination.
ConvergedSourceCount(converged, rGamma) == IF converged THEN 0 ELSE rGamma

\* Variant of ConvergedHorizon that counts every update as a horizon.
ConvergedHorizon_always(converged, horizonNow) == horizonNow + 1

\* Lines 413-415: currentHorizon++ on convergence only.
ConvergedHorizon(converged, horizonNow) ==
    IF converged THEN horizonNow + 1 ELSE horizonNow

\* Lines 386-436: update from the overflow test on.  src is the source pool,
\* dst the destination pool after the append, rb the BTilde rebuilt from them.
UpdateFinish(p, sc, src, dst, ch, rb) ==
    LET even == sc.currentHorizon % 2 = 0
        oom == OutOfMemory(p, dst.rGamma)
        converged == ~oom /\ rb.rTilde = 0
        rGamma1 == ConvergedSourceCount(converged, src.rGamma)
    IN [Gamma |-> IF even THEN src.Gamma ELSE dst.Gamma,
        GammaPrime |-> IF even THEN dst.Gamma ELSE src.Gamma,
        pi |-> IF even THEN src.pi ELSE dst.pi,
        piPrime |-> IF even THEN dst.pi ELSE src.pi,
        rGamma |-> IF even THEN rGamma1 ELSE dst.rGamma,
        rGammaPrime |-> IF even THEN dst.rGamma ELSE rGamma1,
        BTilde |-> IF oom THEN sc.BTilde
                   ELSE IF converged THEN [i \in 0..(p.r - 1) |-> i]
                   ELSE rb.BTilde,
        rTilde |-> IF oom THEN sc.rTilde ELSE IF converged THEN p.r ELSE rb.rTilde,
        currentHorizon |-> ConvergedHorizon(converged, sc.currentHorizon),
        result |-> IF oom THEN NOVA_ERROR_OUT_OF_MEMORY
                   ELSE IF converged THEN NOVA_CONVERGED ELSE NOVA_SUCCESS,
        slot |-> dst.rGamma - 1,
        choice |-> ch,
        rebuilt |-> { rb.BTilde[k] : k \in 0..(rb.rTilde - 1) }]

\* Lines 375-410: the append, then the rebuild of BTilde (not reached when the
\* overflow test fails).
UpdateRebuild(p, sc, src, dst, ch) ==
    UpdateFinish(p, sc, src, dst, ch,
        IF OutOfMemory(p, dst.rGamma) THEN [BTilde |-> sc.BTilde, rTilde |-> sc.rTilde]
        ELSE rebuild_BTilde_loop(p, src.Gamma, src.rGamma, dst.Gamma, dst.rGamma, 0,
                                 [BTilde |-> sc.BTilde, rTilde |-> 0]))

\* Variant of AppendSlot that always writes the first slot.
AppendSlot_first(rGammaPrime) == 0

\* Lines 376-380: the slot of the destination pool the vector and the action
\* are written to.
AppendSlot(rGammaPrime) == rGammaPrime

UpdateAppend(p, sc, src, dst, ch) ==
    UpdateRebuild(p, sc, src,
        [Gamma |-> WriteRow(p, dst.Gamma, AppendSlot(dst.rGamma), ch.row),
         pi |-> WriteEntry(dst.pi, AppendSlot(dst.rGamma), ch.action),
         rGamma |-> dst.rGamma + 1],
        ch)

\* Lines 331-436 for the sampled belief bIndex.  sc holds the scratch fields of
\* the POMDP; the result holds the new scratch fields, the status returned,
\* the pool slot written, what was appended, and the BTilde as rebuilt (before
\* it is restored).
UpdateResult(p, sc, bIndex, junk, garbage) ==
    UpdateAppend(p, sc, SourcePool(sc), DestinationPool(sc),
        UpdateChoice(p, SourcePool(sc).Gamma, SourcePool(sc).rGamma, SourcePool(sc).pi,
                     bIndex, junk, garbage))

\* The junk rows a call of the backup can meet: a row of arbitrary floats for
\* every action whose best-alpha call reads bestj unassigned.  With gamma = 0
\* every term read through bestj is multiplied by zero, so one row stands for
\* all.
JunkChoices(p, Gamma, rGamma, bIndex) ==
    LET unassigned == [a \in 0..(p.m - 1) |->
            p.gamma # 0 /\
            pomdp_perseus_update_compute_best_alpha_cpu(
                p, bIndex, Gamma, rGamma, a, ZeroRow(p), ZeroRow(p)).unassignedRead]
    IN IF \A a \in 0..(p.m - 1) : ~unassigned[a]
       THEN { [a \in 0..(p.m - 1) |-> ZeroRow(p)] }
       ELSE { junk \in [0..(p.m - 1) -> JunkPoolRows(p) \cup {ZeroRow(p)}] :
                \A a \in 0..(p.m - 1) : unassigned[a] \/ junk[a] = ZeroRow(p) }

\* The contents the fresh buffer alpha can show: arbitrary floats when the
\* backup stores no vector into it.
GarbageChoices(p, Gamma, rGamma, bIndex, junk) ==
    IF pomdp_perseus_update_step_cpu(p, Gamma, rGamma, bIndex, junk, ZeroRow(p), 0).stored
    THEN {ZeroRow(p)}
    ELSE JunkRows(p)

---------------------------------------------------------------------------
(* State                                                                   *)

VARIABLES
    pomdp,          \* the model fields of the POMDP object
    initialGamma,   \* argument of complete / execute / initialize
    policy,         \* the caller's policy handle
    Gamma, GammaPrime, pi, piPrime, rGamma, rGammaPrime,
    BTilde, rTilde, currentHorizon,     \* the scratch fields of the POMDP object
    pc,             \* the next operation; "complete", "execute": the planner is
                    \* run by that entry point ("complete_execute": execute
                    \* called by complete); "client...": the caller drives
                    \* initialize, update, get_policy and uninitialize itself
                    \* ("client_live": initialised, "client_policy": policy
                    \* taken, "client_released": uninitialised)
    result,         \* status returned by the last operation
    initCalls,      \* number of calls of initialize
    \* History of the planner since initialize (forgotten by uninitialize):
    hUpdates,       \* update calls made in the horizon of the last update
    hDone,          \* the horizon of the last update is complete
    appended,       \* vectors and actions appended in the horizon of the last update
    bIndexLast,     \* the belief sampled by the last update
    rebuilt,        \* the BTilde rebuilt by the last update, before any restore
    \* History of the run:
    nConverged,     \* number of updates that returned NOVA_CONVERGED
    maxSlot,        \* the highest pool slot written by an update so far (-1: none)
    expand,         \* the arguments and locals of a call of pomdp_expand_random_cpu
    expandLog,      \* history of that call: the rows written, the last belief update
    rngState,       \* the state of the generator behind rand(), one per process
    planners        \* POMDP objects that are updated in turn in one process

scratch == <<Gamma, GammaPrime, pi, piPrime, rGamma, rGammaPrime, BTilde, rTilde,
             currentHorizon>>
ghost == <<initCalls, hUpdates, hDone, appended, nConverged, bIndexLast, rebuilt, maxSlot>>
expansion == <<expand, expandLog>>
process == <<rngState, planners>>
vars == <<pomdp, initialGamma, policy, scratch, pc, result, ghost, expansion, process>>

Scratch == [Gamma |-> Gamma, GammaPrime |-> GammaPrime, pi |-> pi, piPrime |-> piPrime,
            rGamma |-> rGamma, rGammaPrime |-> rGammaPrime, BTilde |-> BTilde,
            rTilde |-> rTilde, currentHorizon |-> currentHorizon]

\* The scratch fields of a POMDP object no planner holds.
Uninitialized ==
    /\ Gamma = nullptr /\ GammaPrime = nullptr /\ pi = nullptr /\ piPrime = nullptr
    /\ BTilde = nullptr
    /\ rGamma = 0 /\ rGammaPrime = 0 /\ rTilde = 0 /\ currentHorizon = 0

Init ==
    /\ \E call \in ValidCalls \cup InvalidCalls :
          /\ pomdp = call.pomdp
          /\ initialGamma = call.initialGamma
          /\ policy = call.policy
          /\ pc \in IF call \in ValidCalls THEN {"complete", "execute", "client"}
                    ELSE {"complete", "execute"}
    /\ Uninitialized
    /\ result = "none"
    /\ initCalls = 0 /\ hUpdates = 0 /\ hDone = TRUE /\ appended = << >>
    /\ nConverged = 0 /\ bIndexLast = 0 /\ rebuilt = {} /\ maxSlot = -1
    /\ expand = nullptr /\ expandLog = nullptr
    /\ rngState = nullptr /\ planners = nullptr

---------------------------------------------------------------------------
(* Operations                                                              *)

\* Line 188.
pomdp_perseus_complete_cpu ==
    /\ pc = "complete"
    /\ pc' = "complete_execute"
    /\ UNCHANGED <<pomdp, initialGamma, policy, scratch, result, ghost, expansion, process>>

\* Variant of InvalidArguments without the test of the horizon.
InvalidArguments_no_horizon(p, ig, pol) ==
    \/ p.n = 0 \/ p.ns = 0 \/ p.m = 0 \/ p.z = 0 \/ p.r = 0 \/ p.rz = 0
    \/ p.S = nullptr \/ p.T = nullptr \/ p.O = nullptr \/ p.R = nullptr
    \/ p.Z = nullptr \/ p.B = nullptr
    \/ p.gamma < 0 \/ p.gamma > 1
    \/ ig = nullptr \/ pol # nullptr

\* Lines 237-241: the condition under which execute rejects its arguments.
InvalidArguments(p, ig, pol) ==
    \/ p.n = 0 \/ p.ns = 0 \/ p.m = 0 \/ p.z = 0 \/ p.r = 0 \/ p.rz = 0
    \/ p.S = nullptr \/ p.T = nullptr \/ p.O = nullptr \/ p.R = nullptr
    \/ p.Z = nullptr \/ p.B = nullptr
    \/ p.gamma < 0 \/ p.gamma > 1 \/ p.horizon < 1
    \/ ig = nullptr \/ pol # nullptr

\* Lines 237-249: entry of execute, up to the call of initialize.
pomdp_perseus_execute_cpu ==
    /\ pc \in {"execute", "complete_execute"}
    /\ IF InvalidArguments(pomdp, initialGamma, policy)
       THEN pc' = "done" /\ result' = NOVA_ERROR_INVALID_DATA
       ELSE pc' = "initialize" /\ result' = result
    /\ UNCHANGED <<pomdp, initialGamma, policy, scratch, ghost, expansion, process>>

\* Variant of ExecuteLoop that runs one horizon more.
ExecuteLoop_one_more(res, horizonNow) ==
    IF res \notin {NOVA_CONVERGED, NOVA_SUCCESS} THEN "done"
    ELSE IF horizonNow <= pomdp.horizon THEN "update"
    ELSE "get_policy"

\* Lines 254-265: where execute goes after initialize or an update returned.
ExecuteLoop(res, horizonNow) ==
    IF res \notin {NOVA_CONVERGED, NOVA_SUCCESS} THEN "done"
    ELSE IF horizonNow < pomdp.horizon THEN "update"
    ELSE "get_policy"

\* Lines 195-227.
pomdp_perseus_initialize_cpu ==
    /\ pc \in {"initialize", "client"}
    /\ currentHorizon' = 0
    /\ Gamma' = [k \in 0..(pomdp.r * pomdp.n - 1) |-> initialGamma[k]]
    /\ GammaPrime' = [k \in 0..(pomdp.r * pomdp.n - 1) |-> initialGamma[k]]
    /\ pi' = [i \in 0..(pomdp.r - 1) |-> 0]
    /\ piPrime' = [i \in 0..(pomdp.r - 1) |-> 0]
    /\ rGamma' = 0
    /\ rGammaPrime' = 0
    /\ rTilde' = pomdp.r
    /\ BTilde' = [i \in 0..(pomdp.r - 1) |-> i]
    /\ result' = NOVA_SUCCESS
    /\ pc' = IF pc = "client" THEN "client_live" ELSE ExecuteLoop(NOVA_SUCCESS, 0)
    /\ initCalls' = initCalls + 1
    /\ hUpdates' = 0 /\ hDone' = TRUE /\ appended' = << >>
    /\ bIndexLast' = 0 /\ rebuilt' = {}
    /\ UNCHANGED <<pomdp, initialGamma, policy, nConverged, maxSlot, expansion, process>>

\* The process dies on an access outside its arrays.
Crash ==
    /\ pc' = IF pc = "client_live" THEN "client_crashed"
             ELSE IF pc = "expand_step" THEN "expand_crashed" ELSE "crashed"
    /\ UNCHANGED <<pomdp, initialGamma, policy, scratch, result, ghost, expansion, process>>

\* The outcomes of lines 350-436 for the sampled belief bIndex, over all the
\* values the uninitialised reads can yield.
UpdateResults(bIndex) ==
    UNION { { UpdateResult(pomdp, Scratch, bIndex, junk, garbage) :
                garbage \in GarbageChoices(pomdp, SourcePool(Scratch).Gamma,
                                           SourcePool(Scratch).rGamma, bIndex, junk) } :
            junk \in JunkChoices(pomdp, SourcePool(Scratch).Gamma,
                                 SourcePool(Scratch).rGamma, bIndex) }

\* Lines 350-436 of update for the sampled belief bIndex.
UpdateFor(bIndex) ==
    \E u \in UpdateResults(bIndex) :
          \/ /\ Gamma' = u.Gamma /\ GammaPrime' = u.GammaPrime
             /\ pi' = u.pi /\ piPrime' = u.piPrime
             /\ rGamma' = u.rGamma /\ rGammaPrime' = u.rGammaPrime
             /\ BTilde' = u.BTilde /\ rTilde' = u.rTilde
             /\ currentHorizon' = u.currentHorizon
             /\ result' = u.result
             /\ pc' = IF pc = "client_live" THEN "client_live"
                      ELSE ExecuteLoop(u.result, u.currentHorizon)
             /\ hUpdates' = IF hDone THEN 1 ELSE hUpdates + 1
             /\ hDone' = (u.result = NOVA_CONVERGED)
             /\ appended' = IF hDone THEN << [row |-> u.choice.row, action |-> u.choice.action] >>
                            ELSE Append(appended, [row |-> u.choice.row,
                                                   action |-> u.choice.action])
             /\ nConverged' = IF u.result = NOVA_CONVERGED THEN nConverged + 1 ELSE nConverged
             /\ bIndexLast' = bIndex
             /\ rebuilt' = IF u.result = NOVA_ERROR_OUT_OF_MEMORY THEN rebuilt ELSE u.rebuilt
             /\ maxSlot' = IF u.slot > maxSlot THEN u.slot ELSE maxSlot
             /\ UNCHANGED <<pomdp, initialGamma, policy, initCalls, expansion, process>>
          \/ \* the vector was written past the end of the destination pool
             /\ u.slot >= pomdp.r
             /\ Crash

\* The values line 348 can compute for bTildeIndex.
BTildeIndexes == { SampleBTildeIndex(rand, rTilde) : rand \in RandDraws }

\* Lines 320-437.  rand() returns any value in [0, RAND_MAX].  BTilde has r
\* entries: index rTilde < r reads an entry outside the active part, index r
\* reads past the array and yields an arbitrary unsigned int (a belief index
\* in range, or one whose use reads outside Z and B).
pomdp_perseus_update_cpu ==
    /\ pc \in {"update", "client_live"}
    /\ pc = "client_live" =>
          /\ currentHorizon < MaxHorizon
          /\ rGamma <= pomdp.r /\ rGammaPrime <= pomdp.r
    /\ \/ \E bIndex \in { BTilde[i] : i \in { k \in BTildeIndexes : k < pomdp.r } } :
             UpdateFor(bIndex)
       \/ /\ \E k \in BTildeIndexes : k >= pomdp.r
          /\ \E bIndex \in 0..(pomdp.r - 1) : UpdateFor(bIndex)
       \/ /\ \E k \in BTildeIndexes : k >= pomdp.r
          /\ Crash

\* Variant of PolicyOf that takes the number of actions from z.
PolicyOf_m_from_z(p, horizonNow, G, piG, rG, GP, piGP, rGP) ==
    LET even == horizonNow % 2 = 0
        pool == IF even THEN G ELSE GP
        acts == IF even THEN piG ELSE piGP
        count == IF even THEN rG ELSE rGP
    IN [n |-> p.n, m |-> p.z, r |-> count,
        Gamma |-> [k \in 0..(count * p.n - 1) |-> pool[k]],
        pi |-> [k \in 0..(count - 1) |-> acts[k]]]

\* Lines 447-469: the policy built from the pool the parity of currentHorizon
\* selects.
PolicyOf(p, horizonNow, G, piG, rG, GP, piGP, rGP) ==
    LET even == horizonNow % 2 = 0
        pool == IF even THEN G ELSE GP
        acts == IF even THEN piG ELSE piGP
        count == IF even THEN rG ELSE rGP
    IN [n |-> p.n, m |-> p.m, r |-> count,
        Gamma |-> [k \in 0..(count * p.n - 1) |-> pool[k]],
        pi |-> [k \in 0..(count - 1) |-> acts[k]]]

\* Lines 442-471.
pomdp_perseus_get_policy_cpu ==
    /\ pc \in {"get_policy", "client_live"}
    /\ IF policy # nullptr
       THEN /\ result' = NOVA_ERROR_INVALID_DATA
            /\ policy' = policy
            /\ pc' = IF pc = "client_live" THEN "client_policy" ELSE "done"
       ELSE /\ result' = NOVA_SUCCESS
            /\ policy' = PolicyOf(pomdp, currentHorizon, Gamma, pi, rGamma,
                                  GammaPrime, piPrime, rGammaPrime)
            /\ pc' = IF pc = "client_live" THEN "client_policy" ELSE "uninitialize"
    /\ UNCHANGED <<pomdp, initialGamma, scratch, ghost, expansion, process>>

\* Variant of pomdp_perseus_uninitialize_cpu that resets the horizon of the
\* model instead of currentHorizon.
pomdp_perseus_uninitialize_cpu_horizon ==
    /\ pc \in {"uninitialize", "client_live", "client_policy", "client_released"}
    /\ pomdp' = [pomdp EXCEPT !.horizon = 0]
    /\ currentHorizon' = currentHorizon
    /\ Gamma' = nullptr /\ rGamma' = 0
    /\ GammaPrime' = nullptr /\ rGammaPrime' = 0
    /\ pi' = nullptr /\ piPrime' = nullptr
    /\ BTilde' = nullptr /\ rTilde' = 0
    /\ result' = NOVA_SUCCESS
    /\ pc' = IF pc = "uninitialize" THEN "done" ELSE "client_released"
    /\ hUpdates' = 0 /\ hDone' = TRUE /\ appended' = << >>
    /\ bIndexLast' = 0 /\ rebuilt' = {}
    /\ UNCHANGED <<initialGamma, policy, initCalls, nConverged, maxSlot, expansion, process>>

\* Variant of pomdp_perseus_uninitialize_cpu that frees BTilde without the
\* reset of rTilde.
pomdp_perseus_uninitialize_cpu_rTilde ==
    /\ pc \in {"uninitialize", "client_live", "client_policy", "client_released"}
    /\ currentHorizon' = 0
    /\ Gamma' = nullptr /\ rGamma' = 0
    /\ GammaPrime' = nullptr /\ rGammaPrime' = 0
    /\ pi' = nullptr /\ piPrime' = nullptr
    /\ BTilde' = nullptr /\ rTilde' = rTilde
    /\ result' = NOVA_SUCCESS
    /\ pc' = IF pc = "uninitialize" THEN "done" ELSE "client_released"
    /\ hUpdates' = 0 /\ hDone' = TRUE /\ appended' = << >>
    /\ bIndexLast' = 0 /\ rebuilt' = {}
    /\ UNCHANGED <<pomdp, initialGamma, policy, initCalls, nConverged, maxSlot, expansion, process>>

\* Lines 284-316; in execute, followed by the return of line 277.
pomdp_perseus_uninitialize_cpu ==
    /\ pc \in {"uninitialize", "client_live", "client_policy", "client_released"}
    /\ currentHorizon' = 0
    /\ Gamma' = nullptr /\ rGamma' = 0
    /\ GammaPrime' = nullptr /\ rGammaPrime' = 0
    /\ pi' = nullptr /\ piPrime' = nullptr
    /\ BTilde' = nullptr /\ rTilde' = 0
    /\ result' = NOVA_SUCCESS
    /\ pc' = IF pc = "uninitialize" THEN "done" ELSE "client_released"
    /\ hUpdates' = 0 /\ hDone' = TRUE /\ appended' = << >>
    /\ bIndexLast' = 0 /\ rebuilt' = {}
    /\ UNCHANGED <<pomdp, initialGamma, policy, initCalls, nConverged, maxSlot, expansion, process>>

Next ==
    \/ pomdp_perseus_complete_cpu
    \/ pomdp_perseus_execute_cpu
    \/ pomdp_perseus_initialize_cpu
    \/ pomdp_perseus_update_cpu
    \/ pomdp_perseus_get_policy_cpu
    \/ pomdp_perseus_uninitialize_cpu

Spec == Init /\ [][Next]_vars

---------------------------------------------------------------------------
(* Belief expansion (pomdp_expand_cpu.cpp)                                 *)
(*                                                                         *)
(* A dense belief (float b[n]) is the record [w, d]: entry s is the        *)
(* rational w[s] / d, kept in lowest terms.  T and O are in halves, as B.  *)
(* NaN is the vector every entry of which is the float NaN (0.0f / 0.0f).  *)

NaN == [w |-> << >>, d |-> 0]

\* The value of probability 1 in the tables T, O and B.
ProbabilityOne == 2

RECURSIVE GCD(_, _)
GCD(x, y) == IF y = 0 THEN x ELSE GCD(y, x % y)

RECURSIVE VectorGCD(_, _, _)
VectorGCD(w, k, acc) ==
    IF k \notin DOMAIN w THEN acc ELSE VectorGCD(w, k + 1, GCD(acc, w[k]))

\* The float vector with entries w[s] / d, for d > 0 and w[s] >= 0.
DenseBelief(w, d) ==
    LET g == VectorGCD(w, 0, d)
    IN [w |-> [s \in DOMAIN w |-> w[s] \div g], d |-> d \div g]

\* Lines 41-48: the successors of state s from position l on.
RECURSIVE belief_update_successors(_, _, _, _, _, _)
belief_update_successors(p, w, a, s, l, bp) ==
    IF l >= p.ns THEN bp
    ELSE LET sp == p.S[s * p.m * p.ns + a * p.ns + l] IN
         IF sp < 0 THEN bp
         ELSE belief_update_successors(p, w, a, s, l + 1,
                  [bp EXCEPT ![sp] = @ + p.T[s * p.m * p.ns + a * p.ns + l] * w[s]])

\* Lines 40-49.
RECURSIVE belief_update_predict(_, _, _, _, _)
belief_update_predict(p, w, a, s, bp) ==
    IF s >= p.n THEN bp
    ELSE belief_update_predict(p, w, a, s + 1, belief_update_successors(p, w, a, s, 0, bp))

\* Variant of belief_update_weigh that adds the entry to the normalizing
\* constant before it is multiplied by O.
belief_update_weigh_late(p, a, o, sp, acc) ==
    [bp |-> [acc.bp EXCEPT ![sp] = @ * p.O[a * p.n * p.z + sp * p.z + o]],
     normalizingConstant |-> acc.normalizingConstant + acc.bp[sp]]

\* Lines 54-56 for one sp.
belief_update_weigh(p, a, o, sp, acc) ==
    [bp |-> [acc.bp EXCEPT ![sp] = @ * p.O[a * p.n * p.z + sp * p.z + o]],
     normalizingConstant |->
         acc.normalizingConstant + acc.bp[sp] * p.O[a * p.n * p.z + sp * p.z + o]]

\* Lines 51-57.
RECURSIVE belief_update_correct(_, _, _, _, _)
belief_update_correct(p, a, o, sp, acc) ==
    IF sp >= p.n THEN acc
    ELSE belief_update_correct(p, a, o, sp + 1, belief_update_weigh(p, a, o, sp, acc))

\* Lines 59-61: every entry divided by the normalizing constant; 0 / 0 is NaN
\* (the entries are non-negative, so they are all 0 when their sum is 0).
belief_update_divide(acc) ==
    IF acc.normalizingConstant = 0 THEN NaN
    ELSE DenseBelief(acc.bp, acc.normalizingConstant)

\* Lines 34-64.  The common factor 1 / (4 d) of the entries and of the
\* normalizing constant cancels in the division.  zeroSum tells whether the
\* normalizing constant was 0 (with b = NaN it is NaN).
pomdp_expand_belief_update_cpu(p, b, a, o) ==
    IF b = NaN
    THEN [bp |-> NaN, zeroSum |-> FALSE, result |-> NOVA_SUCCESS]
    ELSE LET acc == belief_update_correct(p, a, o, 0,
                        [bp |-> belief_update_predict(p, b.w, a, 0, [s \in 0..(p.n - 1) |-> 0]),
                         normalizingConstant |-> 0])
         IN [bp |-> belief_update_divide(acc),
             zeroSum |-> acc.normalizingConstant = 0,
             result |-> NOVA_SUCCESS]

\* Lines 74-82: val for state s from position l on.
RECURSIVE probability_observation_val(_, _, _, _, _)
probability_observation_val(p, a, o, s, l) ==
    IF l >= p.ns THEN 0
    ELSE LET sp == p.S[s * p.m * p.ns + a * p.ns + l] IN
         IF sp < 0 THEN 0
         ELSE p.T[s * p.m * p.ns + a * p.ns + l] * p.O[a * p.n * p.z + sp * p.z + o]
              + probability_observation_val(p, a, o, s, l + 1)

\* Lines 71-85.
RECURSIVE probability_observation_loop(_, _, _, _, _)
probability_observation_loop(p, w, a, o, s) ==
    IF s >= p.n THEN 0
    ELSE probability_observation_val(p, a, o, s, 0) * w[s]
         + probability_observation_loop(p, w, a, o, s + 1)

\* Lines 67-88: prObs as the rational num / den.
pomdp_expand_probability_observation(p, b, a, o) ==
    IF b = NaN THEN NaN
    ELSE [num |-> probability_observation_loop(p, b.w, a, o, 0),
          den |-> ProbabilityOne * ProbabilityOne * b.d]

\* Largest number of belief points requested from pomdp_expand_random_cpu.
MaxBeliefPoints == 2

\* Sparse transitions (T in halves).  Action 0: state 0 stays or moves with
\* probability 1/2 each, state 1 stays; action 1 swaps the states.
ExpandS == Arr(<<0, 1, 1, -1, 1, -1, 0, -1>>)
ExpandT == Arr(<<1, 1, 2, 0, 2, 0, 2, 0>>)

\* O[a * n * z + sp * z + o] in halves.  Action 0 reveals the state; after
\* action 1 state 0 yields either observation, state 1 always observation 1.
ExpandO == Arr(<<2, 0, 0, 2, 1, 1, 0, 2>>)

\* First rows of Z and B: the point belief on state 0, or the uniform belief.
ExpandBeliefs ==
    { [Z |-> Arr(<<0, -1>>), B |-> Arr(<<2, 0>>)],
      [Z |-> Arr(<<0, 1>>), B |-> Arr(<<1, 1>>)] }

\* The POMDPs explored by the expansion: n = 2, ns = 2, m = 2, z = 2, one belief.
ExpandModels ==
    { [n |-> 2, ns |-> 2, m |-> 2, z |-> 2, r |-> 1, rz |-> 2,
       gamma |-> 1, horizon |-> hz,
       S |-> ExpandS, T |-> ExpandT, O |-> ExpandO, R |-> Arr(<<0, 0, 0, 0>>),
       Z |-> bs.Z, B |-> bs.B] :
      hz \in 1..MaxHorizon, bs \in ExpandBeliefs }

\* A row of Bnew the call has not written.
Unwritten == [w |-> << >>, d |-> -1]

\* What n floats read outside the arrays S, T and O can make of a belief.
JunkBeliefs(p) == { NaN, [w |-> [s \in 0..(p.n - 1) |-> 1], d |-> 1] }

\* Lines 96-106: b0, the first belief of the model decoded from its sparse row.
RECURSIVE expand_b0_loop(_, _, _)
expand_b0_loop(p, k, w) ==
    IF k >= p.rz THEN w
    ELSE LET s == p.Z[0 * p.rz + k] IN
         IF s < 0 THEN w
         ELSE expand_b0_loop(p, k + 1, [w EXCEPT ![s] = p.B[0 * p.rz + k]])

expand_b0(p) ==
    DenseBelief(expand_b0_loop(p, 0, [s \in 0..(p.n - 1) |-> 0]), ProbabilityOne)

\* Line 117: (unsigned int)((float)rand() / (float)RAND_MAX * (float)(horizon + 1)).
expand_random_h(rand, horizon) == (rand * (horizon + 1)) \div RAND_MAX

\* Line 125: (unsigned int)((float)rand() / (float)RAND_MAX * (float)m).
expand_random_a(rand, m) == (rand * m) \div RAND_MAX

\* Lines 130-140 from observation op on; the target is rand / RAND_MAX.  Every
\* comparison with NaN is false.
RECURSIVE expand_observation_loop(_, _, _, _, _, _)
expand_observation_loop(p, b, a, rand, op, currentNumber) ==
    IF op >= p.z \/ b = NaN THEN 0
    ELSE LET prObs == pomdp_expand_probability_observation(p, b, a, op) IN
         IF (currentNumber + prObs.num) * RAND_MAX >= rand * prObs.den THEN op
         ELSE expand_observation_loop(p, b, a, rand, op + 1, currentNumber + prObs.num)

\* Lines 149-154.
expand_numNonZeroValues(p, b) ==
    IF b = NaN THEN 0 ELSE Cardinality({ s \in 0..(p.n - 1) : b.w[s] > 0 })

\* A call pomdp_expand_random_cpu(pomdp, numDesiredBeliefPoints,
\* maxNonZeroValues, Bnew) about to be made.  Bnew has one row per belief.
ExpandInit ==
    /\ pomdp \in ExpandModels
    /\ initialGamma = nullptr /\ policy = nullptr
    /\ Uninitialized
    /\ pc = "expand_random" /\ result = "none"
    /\ initCalls = 0 /\ hUpdates = 0 /\ hDone = TRUE /\ appended = << >>
    /\ nConverged = 0 /\ bIndexLast = 0 /\ rebuilt = {} /\ maxSlot = -1
    /\ \E N \in 0..MaxBeliefPoints, mx \in 0..2 :
          expand = [numDesiredBeliefPoints |-> N, maxNonZeroValues |-> mx,
                    Bnew |-> [k \in 0..(N - 1) |-> Unwritten],
                    b0 |-> nullptr, b |-> nullptr, i |-> 0, h |-> 0, t |-> 0]
    /\ expandLog = [rows |-> << >>, a |-> 0, update |-> nullptr]
    /\ rngState = nullptr /\ planners = nullptr

\* Lines 93-113: b0 is set up and the loop is entered, or skipped.
pomdp_expand_random_cpu_enter ==
    /\ pc = "expand_random"
    /\ expand' = [expand EXCEPT !.b0 = expand_b0(pomdp), !.i = 0]
    /\ pc' = IF 0 < expand.numDesiredBeliefPoints THEN "expand_trajectory" ELSE "expand_done"
    /\ result' = IF 0 < expand.numDesiredBeliefPoints THEN result ELSE NOVA_SUCCESS
    /\ UNCHANGED <<pomdp, initialGamma, policy, scratch, ghost, expandLog, process>>

\* Lines 113-123: a trajectory starts (i < numDesiredBeliefPoints holds here).
pomdp_expand_random_cpu_trajectory ==
    /\ pc = "expand_trajectory"
    /\ \E rand \in RandDraws :
          /\ expand' = [expand EXCEPT !.h = expand_random_h(rand, pomdp.horizon),
                                      !.b = expand.b0, !.t = 0]
          /\ pc' = IF expand_random_h(rand, pomdp.horizon) > 0 THEN "expand_step"
                   ELSE "expand_trajectory"
    /\ UNCHANGED <<pomdp, initialGamma, policy, scratch, result, ghost, expandLog, process>>

\* Variant of expand_continue without the break of lines 164-166.
expand_continue_no_break(i1, t1, h, N) ==
    IF t1 < h THEN "expand_step"
    ELSE IF i1 < N THEN "expand_trajectory"
    ELSE "expand_done"

\* Lines 163-167 with the loop tests of lines 123 and 113: where the call goes
\* after row i1 - 1 was written in step t1 - 1 of a trajectory of length h.
expand_continue(i1, t1, h, N) ==
    IF i1 >= N THEN "expand_done"
    ELSE IF t1 < h THEN "expand_step"
    ELSE "expand_trajectory"

\* Variant of expand_maxNonZeroValues that stores the last count.
expand_maxNonZeroValues_last(numNonZeroValues, maxNonZeroValues) == numNonZeroValues

\* Lines 155-157.
expand_maxNonZeroValues(numNonZeroValues, maxNonZeroValues) ==
    IF numNonZeroValues > maxNonZeroValues THEN numNonZeroValues ELSE maxNonZeroValues

\* Lines 143-167: the belief bp replaces b and is written to row i of Bnew.
ExpandEmit(a, o, bp, zeroSum) ==
    LET nz == expand_numNonZeroValues(pomdp, bp)
        next == expand_continue(expand.i + 1, expand.t + 1, expand.h,
                                expand.numDesiredBeliefPoints)
        last == next = "expand_done"
    IN /\ expand' = [expand EXCEPT
               !.b = bp,
               !.maxNonZeroValues = expand_maxNonZeroValues(nz, @),
               !.Bnew = [k \in DOMAIN @ |-> IF k = expand.i THEN bp ELSE @[k]],
               !.i = @ + 1,
               !.t = IF last THEN @ ELSE @ + 1]
       /\ expandLog' = [rows |-> Append(expandLog.rows, expand.i), a |-> a,
                        update |-> [b |-> expand.b, a |-> a, o |-> o, bp |-> bp,
                                    zeroSum |-> zeroSum,
                                    result |-> NOVA_SUCCESS]]
       /\ pc' = next
       /\ result' = IF last THEN NOVA_SUCCESS ELSE result
       /\ UNCHANGED <<pomdp, initialGamma, policy, scratch, ghost, process>>

\* Lines 123-167: one step of a trajectory.  An action a = m makes the kernels
\* read S, T and O outside the arrays.
pomdp_expand_random_cpu_step ==
    /\ pc = "expand_step"
    /\ \E randA \in RandDraws, randT \in RandDraws :
          LET a == expand_random_a(randA, pomdp.m) IN
          \/ /\ a < pomdp.m
             /\ \E o \in { expand_observation_loop(pomdp, expand.b, a, randT, 0, 0) } :
                \E u \in { pomdp_expand_belief_update_cpu(pomdp, expand.b, a, o) } :
                   ExpandEmit(a, o, u.bp, u.zeroSum)
          \/ /\ a >= pomdp.m
             /\ \E junk \in JunkBeliefs(pomdp) : ExpandEmit(a, 0, junk, FALSE)
          \/ /\ a >= pomdp.m
             /\ Crash

ExpandNext ==
    \/ pomdp_expand_random_cpu_enter
    \/ pomdp_expand_random_cpu_trajectory
    \/ pomdp_expand_random_cpu_step

ExpandSpec == ExpandInit /\ [][ExpandNext]_vars

\* The calls that pass 0 in *maxNonZeroValues, a value that has no influence
\* on the course of the call.
ExpandFairInit == ExpandInit /\ expand.maxNonZeroValues = 0

\* The call keeps running, and the horizon drawn at line 117 is not 0 forever.
ExpandFairSpec ==
    /\ ExpandFairInit
    /\ [][ExpandNext]_vars
    /\ WF_vars(ExpandNext)
    /\ WF_vars(pomdp_expand_random_cpu_trajectory /\ pc' = "expand_step")

---------------------------------------------------------------------------
(* Two POMDP objects updated in one process                                *)
(*                                                                         *)
(* rand() (line 348) draws from one generator per process: its state is    *)
(* shared by every POMDP object.  After a seed the generator returns a     *)
(* fixed stream of values.  Each object is followed twice: as updated in   *)
(* turn with the other object, and as updated alone from the same seed.    *)

PlannerObjects == {"A", "B"}

\* Number of update calls made on each object.
MaxPlannerUpdates == 2

\* The streams explored: period 3, over the values below RAND_MAX.
StreamLength == 3
Streams == [0..(StreamLength - 1) -> RandDraws \ {RAND_MAX}]

\* The model whose arrays the two objects share: three beliefs, positive
\* rewards and gamma = 0, so that no update reads an uninitialised value.
PlannersModel ==
    [n |-> 2, ns |-> 2, m |-> 2, z |-> 2, r |-> 3, rz |-> 2, gamma |-> 0,
     horizon |-> MaxHorizon,
     S |-> ModelS, T |-> ModelT, O |-> ModelO(2), R |-> Arr(<<1, 0, 0, 3>>),
     Z |-> Arr(<<0, -1, 0, 1, 1, -1>>), B |-> Arr(<<2, 0, 1, 1, 2, 0>>)]

\* Lines 195-227: the scratch fields pomdp_perseus_initialize_cpu leaves.
InitializedScratch(p, ig) ==
    [Gamma |-> [k \in 0..(p.r * p.n - 1) |-> ig[k]],
     GammaPrime |-> [k \in 0..(p.r * p.n - 1) |-> ig[k]],
     pi |-> [i \in 0..(p.r - 1) |-> 0], piPrime |-> [i \in 0..(p.r - 1) |-> 0],
     rGamma |-> 0, rGammaPrime |-> 0,
     BTilde |-> [i \in 0..(p.r - 1) |-> i], rTilde |-> p.r, currentHorizon |-> 0]

NoJunk(p) == [a \in 0..(p.m - 1) |-> ZeroRow(p)]

\* The update of the object with scratch fields sc reads no uninitialised
\* value and no BTilde entry out of range when rand() returns `rand`.
PlannerUpdateDefined(p, sc, rand) ==
    /\ SampleBTildeIndex(rand, sc.rTilde) < sc.rTilde
    /\ JunkChoices(p, SourcePool(sc).Gamma, SourcePool(sc).rGamma,
                   sc.BTilde[SampleBTildeIndex(rand, sc.rTilde)]) = {NoJunk(p)}
    /\ GarbageChoices(p, SourcePool(sc).Gamma, SourcePool(sc).rGamma,
                      sc.BTilde[SampleBTildeIndex(rand, sc.rTilde)], NoJunk(p)) = {ZeroRow(p)}

\* Lines 320-437 on the object with scratch fields sc: its scratch fields
\* after the call, when rand() returns `rand`.
PlannerUpdate(p, sc, rand) ==
    LET u == UpdateResult(p, sc, sc.BTilde[SampleBTildeIndex(rand, sc.rTilde)],
                          NoJunk(p), ZeroRow(p))
    IN [f \in DOMAIN sc |-> u[f]]

\* Both objects were initialised; the generator was seeded once.
PlannersInit ==
    /\ pomdp = PlannersModel
    /\ initialGamma = [k \in 0..(PlannersModel.r * PlannersModel.n - 1) |-> 0]
    /\ policy = nullptr
    /\ Uninitialized
    /\ pc = "planners" /\ result = "none"
    /\ initCalls = 0 /\ hUpdates = 0 /\ hDone = TRUE /\ appended = << >>
    /\ nConverged = 0 /\ bIndexLast = 0 /\ rebuilt = {} /\ maxSlot = -1
    /\ expand = nullptr /\ expandLog = nullptr
    /\ \E stream \in Streams : rngState = [stream |-> stream, next |-> 0]
    /\ planners = [X \in PlannerObjects |->
                      [scratch |-> InitializedScratch(pomdp, initialGamma),
                       alone |-> InitializedScratch(pomdp, initialGamma),
                       updates |-> 0]]

\* pomdp_perseus_update_cpu(X): the call draws the next value of the shared
\* generator.  Run alone, the k-th update of X draws the k-th value.
pomdp_perseus_update_cpu_of(X) ==
    /\ pc = "planners"
    /\ planners[X].updates < MaxPlannerUpdates
    /\ PlannerUpdateDefined(pomdp, planners[X].scratch, rngState.stream[rngState.next])
    /\ PlannerUpdateDefined(pomdp, planners[X].alone,
                            rngState.stream[planners[X].updates % StreamLength])
    /\ planners' = [planners EXCEPT ![X] =
           [scratch |-> PlannerUpdate(pomdp, @.scratch, rngState.stream[rngState.next]),
            alone |-> PlannerUpdate(pomdp, @.alone,
                                    rngState.stream[@.updates % StreamLength]),
            updates |-> @.updates + 1]]
    /\ rngState' = [rngState EXCEPT !.next = (@ + 1) % StreamLength]
    /\ UNCHANGED <<pomdp, initialGamma, policy, scratch, pc, result, ghost, expansion>>

PlannersNext == \E X \in PlannerObjects : pomdp_perseus_update_cpu_of(X)

PlannersSpec == PlannersInit /\ [][PlannersNext]_vars

---------------------------------------------------------------------------
(* Properties                                                              *)

\* An update call returns in this step.
UpdateReturns ==
    \/ pc = "update" /\ pc' # "crashed"
    \/ pc = "client_live" /\ pc' = "client_live"

\* b . alpha for belief b and row `row` (in quarters), over the support of b.
BeliefDot(b, row) ==
    LET term[k \in 0..pomdp.rz] ==
            IF k = 0 THEN 0
            ELSE term[k - 1]
                 + (IF \A j \in 0..(k - 1) : pomdp.Z[b * pomdp.rz + j] >= 0
                    THEN pomdp.B[b * pomdp.rz + k - 1]
                         * row[pomdp.Z[b * pomdp.rz + k - 1]]
                    ELSE 0)
    IN 2 * term[pomdp.rz]

\* The policy holding exactly the vectors and actions of `appended`, in order.
AppendedPolicy ==
    [n |-> pomdp.n, m |-> pomdp.m, r |-> Len(appended),
     Gamma |-> [k \in 0..(Len(appended) * pomdp.n - 1) |->
                   appended[(k \div pomdp.n) + 1].row[k % pomdp.n]],
     pi |-> [i \in 0..(Len(appended) - 1) |-> appended[i + 1].action]]

\* ---- C1 ----
\* The arguments violate one of the requirements of execute.
C1_Violation ==
    \/ pomdp.n = 0 \/ pomdp.ns = 0 \/ pomdp.m = 0 \/ pomdp.z = 0 \/ pomdp.r = 0
    \/ pomdp.rz = 0
    \/ pomdp.S = nullptr \/ pomdp.T = nullptr \/ pomdp.O = nullptr \/ pomdp.R = nullptr
    \/ pomdp.Z = nullptr \/ pomdp.B = nullptr
    \/ ~(0 <= pomdp.gamma /\ pomdp.gamma <= 1)
    \/ pomdp.horizon < 1
    \/ initialGamma = nullptr
    \/ policy # nullptr

\* C1: when execute is entered (directly or through complete, which only
\* forwards) with arguments that violate a requirement, it returns
\* NOVA_ERROR_INVALID_DATA at once: initialize is not called, no scratch field
\* and not the policy handle changes.
C1_InvalidArgumentsRejected ==
    [][ /\ (pc = "complete" /\ C1_Violation) =>
              (pc' = "complete_execute" /\ UNCHANGED <<scratch, policy, initCalls, result>>)
        /\ (pc \in {"execute", "complete_execute"} /\ C1_Violation) =>
              /\ pc' = "done"
              /\ result' = NOVA_ERROR_INVALID_DATA
              /\ initCalls' = 0
              /\ UNCHANGED <<scratch, policy>> ]_vars

C1_Witness ==
    /\ pc = "done" /\ result = NOVA_ERROR_INVALID_DATA
    /\ initCalls = 0 /\ Uninitialized
    /\ pomdp.horizon < 1

\* ---- C2 ----
\* C2: execute on valid input returns NOVA_SUCCESS after exactly `horizon`
\* updates returned NOVA_CONVERGED, and no horizon takes more than r updates.
C2_ExecuteSucceeds ==
    /\ (pc = "update" \/ pc = "done") => hUpdates <= pomdp.r
    /\ (pc = "done" /\ initCalls = 1) =>
          (result = NOVA_SUCCESS /\ nConverged = pomdp.horizon)

\* ---- C3 ----
\* C3: when execute returns an error that arose after initialize, the scratch
\* state has been released.
C3_ErrorReturnUninitializes ==
    (pc = "done" /\ initCalls = 1 /\ result # NOVA_SUCCESS) => Uninitialized

\* ---- C4 ----
\* C4: the step by which execute returns NOVA_SUCCESS is taken with
\* currentHorizon = horizon and the policy handle holding exactly the vectors
\* and actions appended in the last completed horizon; it leaves the policy
\* alone and the POMDP uninitialized.
C4_SuccessReturn ==
    [][ (pc # "done" /\ pc' = "done" /\ result' = NOVA_SUCCESS) =>
            /\ currentHorizon = pomdp.horizon
            /\ nConverged = pomdp.horizon
            /\ hDone
            /\ policy # nullptr
            /\ policy = AppendedPolicy
            /\ policy.r >= 1
            /\ policy' = policy
            /\ Uninitialized' ]_vars

C4_Witness ==
    /\ pc = "done" /\ result = NOVA_SUCCESS
    /\ policy # nullptr /\ policy.r = 2
    /\ pomdp.horizon = 2 /\ nConverged = 2
    /\ Uninitialized

\* ---- C5 ----
\* C5: the pool counts never exceed r and no vector is written at a slot >= r.
C5_PoolsWithinCapacity ==
    /\ rGamma <= pomdp.r
    /\ rGammaPrime <= pomdp.r
    /\ maxSlot < pomdp.r

\* ---- C6 ----
\* C6: an update that follows another update of the same horizon rebuilds a
\* BTilde strictly smaller than the one the earlier update left, and never
\* one that holds the belief it sampled.
C6_BTildeShrinks ==
    [][ (UpdateReturns /\ ~hDone) =>
            /\ Cardinality(rebuilt') < rTilde
            /\ bIndexLast' \notin rebuilt' ]_vars

\* ---- C7 ----
\* C7: after an update that returns NOVA_CONVERGED, every belief's value under
\* the destination pool (the maximum of b.alpha over its vectors) is at least
\* its value under the pool that was the source of that horizon.
C7_PerseusImprovement ==
    [][ (UpdateReturns /\ result' = NOVA_CONVERGED) =>
            LET even == currentHorizon % 2 = 0
                src == IF even THEN Gamma ELSE GammaPrime
                srcCount == IF even THEN rGamma ELSE rGammaPrime
                dst == IF even THEN GammaPrime' ELSE Gamma'
                dstCount == IF even THEN rGammaPrime' ELSE rGamma'
            IN \A b \in 0..(pomdp.r - 1) :
                 \A i \in 0..(srcCount - 1) :
                    \E j \in 0..(dstCount - 1) :
                       BeliefDot(b, [s \in 0..(pomdp.n - 1) |-> dst[j * pomdp.n + s]])
                       >= BeliefDot(b, [s \in 0..(pomdp.n - 1) |-> src[i * pomdp.n + s]]) ]_vars

\* ---- C8 ----
\* C8: while the planner is initialised, the active part of BTilde holds
\* pairwise distinct belief indices in [0, r), and rTilde <= r.
C8_BTildeDistinct ==
    BTilde # nullptr =>
        /\ rTilde <= pomdp.r
        /\ \A i \in 0..(rTilde - 1) : BTilde[i] \in 0..(pomdp.r - 1)
        /\ \A i, j \in 0..(rTilde - 1) : i # j => BTilde[i] # BTilde[j]

C8_Witness ==
    /\ BTilde # nullptr /\ pomdp.r = 3 /\ rTilde = 2 /\ ~hDone /\ hUpdates >= 1
    /\ BTilde[0] # 0

\* ---- C9 ----
\* C9: the destination pool is empty when a horizon starts; get_policy returns
\* the pool the parity of currentHorizon selects; taken right after an update
\* returned NOVA_CONVERGED, that is exactly the vectors and actions appended
\* during the horizon that just completed, in append order.
C9_PolicyIsLastHorizon ==
    /\ [](( Gamma # nullptr /\ hDone) =>
             (IF currentHorizon % 2 = 0 THEN rGammaPrime ELSE rGamma) = 0)
    /\ [][ (policy = nullptr /\ policy' # nullptr) =>
              /\ policy'.r = (IF currentHorizon % 2 = 0 THEN rGamma ELSE rGammaPrime)
              /\ \A k \in 0..(policy'.r * pomdp.n - 1) :
                    policy'.Gamma[k] = (IF currentHorizon % 2 = 0 THEN Gamma[k]
                                        ELSE GammaPrime[k])
              /\ \A i \in 0..(policy'.r - 1) :
                    policy'.pi[i] = (IF currentHorizon % 2 = 0 THEN pi[i] ELSE piPrime[i])
              /\ (hDone /\ hUpdates >= 1) => policy' = AppendedPolicy ]_vars

C9_Witness ==
    /\ pc = "client_policy" /\ hDone /\ hUpdates = 2
    /\ policy # nullptr /\ policy.r = 2 /\ currentHorizon = 2
    /\ policy.Gamma[0] # policy.Gamma[2]

\* ---- C10 ----
\* C10: a policy produced by get_policy has the model's n and m and at most r
\* alpha-vectors.
C10_PolicyShape ==
    (policy # nullptr /\ initCalls >= 1) =>
        /\ policy.n = pomdp.n
        /\ policy.m = pomdp.m
        /\ policy.r <= pomdp.r
        /\ DOMAIN policy.Gamma = 0..(policy.r * pomdp.n - 1)
        /\ DOMAIN policy.pi = 0..(policy.r - 1)

C10_Witness ==
    /\ policy # nullptr /\ initCalls >= 1
    /\ policy.r = pomdp.r /\ pomdp.r = 3 /\ pc = "client_policy"

SumTo(f, n) ==
    LET acc[k \in 0..n] == IF k = 0 THEN 0 ELSE acc[k - 1] + f[k - 1]
    IN acc[n]

\* T(s, a, sp) in halves: the entries of the sparse row of (s, a), up to its
\* first negative successor, that lead to sp.
TransitionProbability(s, a, sp) ==
    LET row == s * pomdp.m * pomdp.ns + a * pomdp.ns
    IN SumTo([l \in 0..(pomdp.ns - 1) |->
                 IF /\ \A j \in 0..l : pomdp.S[row + j] >= 0
                    /\ pomdp.S[row + l] = sp
                 THEN pomdp.T[row + l] ELSE 0], pomdp.ns)

\* O[a, sp, o] * sum over s of b[s] * T(s, a, sp), for every sp, as multiples
\* of 1 / (4 * b.d).  Their sum is Pr(o | b, a).
UnnormalizedPosterior(b, a, o) ==
    [sp \in 0..(pomdp.n - 1) |->
        pomdp.O[a * pomdp.n * pomdp.z + sp * pomdp.z + o]
        * SumTo([s \in 0..(pomdp.n - 1) |-> b.w[s] * TransitionProbability(s, a, sp)],
                pomdp.n)]

\* C13: when pomdp_expand_belief_update_cpu is called with a belief b that
\* sums to 1, an action a < m and an observation o with Pr(o | b, a) > 0, the
\* vector bp it produces sums to 1, and every entry bp[sp] equals
\* O[a, sp, o] * sum_s b[s] * T(s, a, sp) divided by the sum of these terms
\* over all sp.
C13_BeliefUpdateNormalized ==
    expandLog.update # nullptr =>
        LET u == expandLog.update
            post == UnnormalizedPosterior(u.b, u.a, u.o)
            total == SumTo(post, pomdp.n)
        IN (/\ u.a < pomdp.m
            /\ u.b # NaN
            /\ SumTo(u.b.w, pomdp.n) = u.b.d
            /\ total > 0)
           => /\ u.bp # NaN
              /\ SumTo(u.bp.w, pomdp.n) = u.bp.d
              /\ \A sp \in 0..(pomdp.n - 1) : u.bp.w[sp] * total = u.bp.d * post[sp]

\* The uniform belief, action 1 and observation 1 (which both states can emit,
\* with different probabilities) gave the belief (1/3, 2/3).
C13_Witness ==
    /\ expandLog.update # nullptr
    /\ expandLog.update.b = [w |-> Arr(<<1, 1>>), d |-> 2]
    /\ expandLog.update.a = 1 /\ expandLog.update.o = 1
    /\ expandLog.update.bp = [w |-> Arr(<<1, 2>>), d |-> 3]
    /\ expand.Bnew[expand.i - 1] = expandLog.update.bp

\* ---- C14 ----
\* C14: a call of pomdp_expand_belief_update_cpu in which the unnormalized
\* posterior sums to zero over all successor states does not return
\* NOVA_SUCCESS (it reports the degenerate belief as a failure).
C14_DegenerateBeliefReported ==
    (expandLog.update # nullptr /\ expandLog.update.zeroSum)
        => expandLog.update.result # NOVA_SUCCESS

\* ---- C16 ----
\* C16: whenever update is about to be called, every value rand() can return
\* gives at line 348 an index bTildeIndex with 0 <= bTildeIndex < rTilde, an
\* index of the active part of BTilde.
C16_SampleInRange ==
    (\/ pc = "update"
     \/ /\ pc = "client_live" /\ currentHorizon < MaxHorizon
        /\ rGamma <= pomdp.r /\ rGammaPrime <= pomdp.r)
        => \A bTildeIndex \in BTildeIndexes : 0 <= bTildeIndex /\ bTildeIndex < rTilde

\* ---- C20 ----
\* b . alpha (in quarters) for belief b and each active vector of the pool.
PoolValues(pool, b) ==
    [i \in 0..(pool.rGamma - 1) |-> BeliefDot(b, GammaRow(pomdp, pool.Gamma, i))]

\* C20: for every belief index and every non-empty pool of the planner,
\* pomdp_perseus_compute_Vb_cpu returns in *Vnb the maximum of b . alpha over
\* the active vectors of the pool and in *alphaPrimeIndex the smallest index
\* that attains it, whatever the sign of the values.
C20_ValueAtBelief ==
    Gamma # nullptr =>
        \A pool \in {SourcePool(Scratch), DestinationPool(Scratch)} :
            (1 <= pool.rGamma /\ pool.rGamma <= pomdp.r) =>
                \A b \in 0..(pomdp.r - 1) :
                    LET v == pomdp_perseus_compute_Vb_cpu(pomdp.n, pomdp.rz, pomdp.Z,
                                 pomdp.B, b, pool.Gamma, pool.rGamma, 0)
                        values == PoolValues(pool, b)
                    IN /\ \A i \in DOMAIN values : values[i] <= v.Vnb
                       /\ v.alphaPrimeIndex \in DOMAIN values
                       /\ values[v.alphaPrimeIndex] = v.Vnb
                       /\ \A i \in DOMAIN values : i < v.alphaPrimeIndex => values[i] < v.Vnb

\* ---- C17 ----
\* The backed-up vectors alpha* with their actions a* that the backup of
\* belief b against the pool src stores.
StoredBackups(src, b) ==
    { step \in { pomdp_perseus_update_step_cpu(pomdp, src.Gamma, src.rGamma, b, junk,
                                               ZeroRow(pomdp), 0) :
                 junk \in JunkChoices(pomdp, src.Gamma, src.rGamma, b) } :
        step.stored }

\* The vector and action `last` are what the update of belief b has to append:
\* alpha* and a* if b . alpha* >= V_n(b), else an active vector of the source
\* pool that attains V_n(b), with its action.
AppendsBackupOrBest(src, b, last) ==
    LET values == PoolValues(src, b) IN
    \E step \in StoredBackups(src, b) :
        IF \A i \in DOMAIN values : BeliefDot(b, step.alphaPrime) >= values[i]
        THEN last = [row |-> step.alphaPrime, action |-> step.aPrime]
        ELSE \E i \in DOMAIN values :
                /\ \A k \in DOMAIN values : values[k] <= values[i]
                /\ last = [row |-> GammaRow(pomdp, src.Gamma, i), action |-> src.pi[i]]

\* C17: every update that returns has appended exactly one vector with its
\* action to the destination pool (the count of that pool grows by 1 and the
\* new slot holds the vector and the action): the backed-up vector alpha*
\* with a* if b . alpha* >= V_n(bIndex), otherwise an active vector of the
\* source pool that attains V_n(bIndex), with its action from pi_n.
C17_AppendsBackupOrBest ==
    [][ UpdateReturns =>
          LET even == currentHorizon % 2 = 0
              slot == DestinationPool(Scratch).rGamma
              last == appended'[Len(appended')]
          IN /\ (IF even THEN rGammaPrime' ELSE rGamma') = slot + 1
             /\ slot < pomdp.r =>
                   /\ GammaRow(pomdp, IF even THEN GammaPrime' ELSE Gamma', slot) = last.row
                   /\ (IF even THEN piPrime' ELSE pi')[slot] = last.action
             /\ AppendsBackupOrBest(SourcePool(Scratch), bIndexLast', last) ]_vars

\* ---- C18 ----
\* C18: an update that reaches the convergence test of line 413 (it returns,
\* and not by the overflow return of lines 386-389) returns NOVA_CONVERGED
\* exactly when the BTilde it rebuilt is empty; it then has incremented
\* currentHorizon by exactly 1, set to 0 the count of the pool that was the
\* source, and restored BTilde = [0..r) with rTilde = r.  Otherwise it returns
\* NOVA_SUCCESS, leaves currentHorizon and the source count unchanged, and the
\* active part of BTilde is the rebuilt set.
C18_ConvergedIffEmpty ==
    [][ (UpdateReturns /\ result' # NOVA_ERROR_OUT_OF_MEMORY) =>
          LET even == currentHorizon % 2 = 0
              sourceCount == IF even THEN rGamma ELSE rGammaPrime
              sourceCountAfter == IF even THEN rGamma' ELSE rGammaPrime'
          IN /\ (result' = NOVA_CONVERGED) <=> (rebuilt' = {})
             /\ result' = NOVA_CONVERGED =>
                   /\ currentHorizon' = currentHorizon + 1
                   /\ sourceCountAfter = 0
                   /\ rTilde' = pomdp.r
                   /\ BTilde' = [i \in 0..(pomdp.r - 1) |-> i]
             /\ result' # NOVA_CONVERGED =>
                   /\ result' = NOVA_SUCCESS
                   /\ currentHorizon' = currentHorizon
                   /\ sourceCountAfter = sourceCount
                   /\ { BTilde'[k] : k \in 0..(rTilde' - 1) } = rebuilt' ]_vars

\* The second update of horizon 1 (the first returned NOVA_SUCCESS) has
\* returned NOVA_CONVERGED: horizon 2 starts with the pool GammaPrime, the
\* source of horizon 1, emptied and BTilde restored.
C18_Witness ==
    /\ pc = "client_live" /\ result = NOVA_CONVERGED
    /\ hDone /\ hUpdates = 2 /\ rebuilt = {}
    /\ currentHorizon = 2 /\ rGammaPrime = 0 /\ rGamma = 2
    /\ rTilde = pomdp.r /\ BTilde = [i \in 0..(pomdp.r - 1) |-> i]

C15_PlannersIndependent ==
    \A X \in PlannerObjects :
        /\ planners[X].scratch = planners[X].alone
        /\ LET sc == planners[X].scratch
               al == planners[X].alone
           IN PolicyOf(pomdp, sc.currentHorizon, sc.Gamma, sc.pi, sc.rGamma,
                       sc.GammaPrime, sc.piPrime, sc.rGammaPrime)
              = PolicyOf(pomdp, al.currentHorizon, al.Gamma, al.pi, al.rGamma,
                         al.GammaPrime, al.piPrime, al.rGammaPrime)

\* ---- C22 ----
\* C22: in pomdp_expand_random_cpu the trajectory length h drawn at line 117
\* lies in [0, horizon] and every action a drawn at line 125 lies in [0, m),
\* whatever rand() returns.
C22_DrawsInRange ==
    /\ 0 <= expand.h /\ expand.h <= pomdp.horizon
    /\ 0 <= expandLog.a /\ expandLog.a < pomdp.m

\* ---- C26 ----
\* C26: in pomdp_expand_random_cpu the observation o chosen by the loop of
\* lines 130-140 for a belief b and an action a < m has Pr(o | b, a) > 0,
\* whatever the target drawn at line 128, and the belief update that follows
\* does not divide by a zero normalizing constant.
C26_ObservationPossible ==
    (/\ expandLog.update # nullptr
     /\ expandLog.update.a < pomdp.m
     /\ expandLog.update.b # NaN)
        => /\ pomdp_expand_probability_observation(pomdp, expandLog.update.b,
                  expandLog.update.a, expandLog.update.o).num > 0
           /\ ~expandLog.update.zeroSum

\* ---- C23 ----
\* The number of strictly positive entries of a row of floats (no comparison
\* with NaN is true).
RowSupport(row) ==
    IF row = NaN THEN 0 ELSE Cardinality({ s \in DOMAIN row.w : row.w[s] > 0 })

\* C23: during pomdp_expand_random_cpu *maxNonZeroValues never decreases; it
\* is at least the number of strictly positive entries of every row written to
\* Bnew so far (so of every row, on return); and it changes only in a step
\* that writes a row with more positive entries than its value, to that
\* number: when no row has a larger support it keeps the value passed in.
C23_MaxNonZeroValuesMonotone ==
    /\ [](\A k \in 0..(expand.i - 1) :
             k \in DOMAIN expand.Bnew =>
                RowSupport(expand.Bnew[k]) <= expand.maxNonZeroValues)
    /\ [][ /\ expand.maxNonZeroValues' >= expand.maxNonZeroValues
           /\ expand.maxNonZeroValues' # expand.maxNonZeroValues =>
                 /\ expand.i' = expand.i + 1
                 /\ RowSupport(expand.Bnew'[expand.i]) > expand.maxNonZeroValues
                 /\ expand.maxNonZeroValues' = RowSupport(expand.Bnew'[expand.i]) ]_vars

\* The call returned after writing a row with one positive entry and then a
\* row with two: *maxNonZeroValues is 2.
C23_Witness ==
    /\ pc = "expand_done" /\ result = NOVA_SUCCESS
    /\ expand.numDesiredBeliefPoints = 2 /\ expand.i = 2
    /\ expandLog.a < pomdp.m
    /\ RowSupport(expand.Bnew[0]) = 1 /\ RowSupport(expand.Bnew[1]) = 2
    /\ expand.maxNonZeroValues = 2

BackupCandidates(src, b, junk) ==
    [a \in 0..(pomdp.m - 1) |->
        pomdp_perseus_update_compute_best_alpha_cpu(pomdp, b, src.Gamma, src.rGamma, a,
            [s \in 0..(pomdp.n - 1) |-> pomdp.R[s * pomdp.m + a]], junk[a]).alpha]

\* C21: whenever update can be called, for every belief b
\* pomdp_perseus_update_step_cpu assigns *alphaPrime and *aPrime (whatever the
\* caller's buffer held): to the candidate vector of the action whose b . alpha
\* is maximum over the m actions, the lowest such action, also when all the
\* values are zero or negative.
C21_BackupAssigns ==
    (\/ pc = "update"
     \/ /\ pc = "client_live" /\ currentHorizon < MaxHorizon
        /\ rGamma <= pomdp.r /\ rGammaPrime <= pomdp.r)
        => \A b \in 0..(pomdp.r - 1) :
           \A junk \in JunkChoices(pomdp, SourcePool(Scratch).Gamma,
                                   SourcePool(Scratch).rGamma, b) :
              LET src == SourcePool(Scratch)
                  step == pomdp_perseus_update_step_cpu(pomdp, src.Gamma, src.rGamma, b,
                                                        junk, ZeroRow(pomdp), 0)
                  cand == BackupCandidates(src, b, junk)
                  val == [a \in 0..(pomdp.m - 1) |-> BeliefDot(b, cand[a])]
              IN /\ step.stored
                 /\ step.alphaPrime = cand[step.aPrime]
                 /\ \A a \in 0..(pomdp.m - 1) : val[a] <= val[step.aPrime]
                 /\ \A a \in 0..(pomdp.m - 1) : a < step.aPrime => val[a] < val[step.aPrime]

\* ---- C25 ----
\* C25: whenever update can be called, for every belief and every action the
\* best-alpha kernel reads Gamma[bestj * n + sp] (lines 122-131) only with a
\* bestj that its maximisation over the source pool has assigned, and that
\* bestj is below the count of the source pool; also when the source pool is
\* empty or no value of the pool is positive.
C25_BestjAssigned ==
    (\/ pc = "update"
     \/ /\ pc = "client_live" /\ currentHorizon < MaxHorizon
        /\ rGamma <= pomdp.r /\ rGammaPrime <= pomdp.r)
        => \A b \in 0..(pomdp.r - 1), a \in 0..(pomdp.m - 1) :
              LET src == SourcePool(Scratch)
                  best == pomdp_perseus_update_compute_best_alpha_cpu(
                              pomdp, b, src.Gamma, src.rGamma, a, ZeroRow(pomdp),
                              ZeroRow(pomdp))
              IN /\ ~best.unassignedRead
                 /\ best.assigned
                 /\ best.bestj < src.rGamma

\* ---- C24 ----
\* C24: the first update made on the state initialize produced, whenever it
\* returns, returns NOVA_CONVERGED: horizon 0 is complete after exactly one
\* update, with currentHorizon = 1, one vector in GammaPrime
\* (rGammaPrime = 1), rGamma = 0 and BTilde restored to [0..r) with
\* rTilde = r; for every model and whatever rand() returns.
C24_FirstUpdateConverges ==
    [][ (UpdateReturns /\ Scratch = InitializedScratch(pomdp, initialGamma)) =>
          /\ result' = NOVA_CONVERGED
          /\ hUpdates' = 1 /\ hDone'
          /\ currentHorizon' = 1
          /\ rGammaPrime' = 1 /\ rGamma' = 0
          /\ rTilde' = pomdp.r
          /\ BTilde' = [i \in 0..(pomdp.r - 1) |-> i] ]_vars

\* execute made the first update of a model with three beliefs and horizon 2
\* on the last belief: it converged and execute goes on to horizon 1.
C24_Witness ==
    /\ pc = "update" /\ result = NOVA_CONVERGED
    /\ pomdp.r = 3 /\ pomdp.horizon = 2
    /\ nConverged = 1 /\ hUpdates = 1 /\ hDone /\ bIndexLast = 2
    /\ currentHorizon = 1 /\ rGammaPrime = 1 /\ rGamma = 0
    /\ rTilde = 3 /\ BTilde = [i \in 0..2 |-> i]

=============================================================================
